---- MODULE Spec2Model ----
(***************************************************************************)
(* State-machine model of src/server.py: the lru-cached template reader    *)
(* (read_prompt_file), the /healthz liveness cache, and the buffered and   *)
(* streaming chat-completion handlers.                                     *)
(***************************************************************************)
EXTENDS Integers, Sequences, FiniteSets, TLC

\* ------------------------------------------------------------------ bounds

\* Number of distinct "other" template names swept through the cache.
NumFillers == 33
\* Number of writes to the template store during one run.
MaxWrites == 1

\* -------------------------------------------------------- program constants

\* @lru_cache(maxsize=32)
maxsize == 32

\* --------------------------------------------------------------------- state

VARIABLES
    store,        \* the template files: name -> content, for the files present
    cache,        \* lru_cache of read_prompt_file: entries, least recent first
    call,         \* the last read_prompt_file call and what it did
    firstResult,  \* name -> content returned by its first successful resolve
    touched,      \* names whose file was written after their first resolve
    sinceLast,    \* name -> the other names resolved since its last resolve
    nextFiller,   \* next filler name to be requested
    writes,       \* number of store writes so far
    failed        \* names for which a resolve has raised the 404

cacheVars == <<store, cache, call, firstResult, touched, sinceLast, nextFiller,
               writes, failed>>

VARIABLES
    now,            \* time.time(), in whole seconds
    healthz_attrs,  \* the attributes set on the healthz function object
    hz,             \* per caller: the /healthz call it is in, or its last one
    status_origin   \* history: current_time of the call whose probe stored
                    \* last_status (recorded under StalenessSpec only)

healthVars == <<now, healthz_attrs, hz, status_origin>>

VARIABLES
    req      \* the chat request being served, or the last one served

gwVars == <<req>>

vars == <<cacheVars, healthVars, gwVars>>

\* ------------------------------------------------------------ template store

FillerName(i) == ToString(i)
FillerNames == {FillerName(i) : i \in 1..NumFillers}
FillerBody == "filler"

\* Template names a request can carry: one present, one present with an
\* empty file, one absent.
HotNames == {"helpful", "blank", "xyz"}
\* Names whose file an operator may (re)write while the process runs.
WritableNames == {"helpful", "xyz"}
WriteBodies == {"Be terse."}

\* /prompts/<name>.txt for every file present at process start.
InitStore ==
    [n \in {"helpful", "blank"} \cup FillerNames |->
        IF n = "helpful" THEN "You are helpful."
        ELSE IF n = "blank" THEN ""
        ELSE FillerBody]

NoCall == [name |-> "", again |-> FALSE, others |-> 0, raised |-> FALSE,
           status_code |-> 0, value |-> "", exists_checks |-> 0, reads |-> 0]

\* ------------------------------------------------------- read_prompt_file

\* os.path.exists(prompt_path)
path_exists(s, prompt_name) == prompt_name \in DOMAIN s

\* Variant of the function body that returns an empty template for a
\* missing file instead of raising the 404.
read_prompt_file_body_noraise(s, prompt_name) ==
    [raised |-> FALSE, status_code |-> 0, detail |-> "",
     value |-> IF path_exists(s, prompt_name) THEN s[prompt_name] ELSE "x",
     exists_checks |-> 1, reads |-> 1]

\* The undecorated function body: one existence check, then either a 404
\* or one read of the file.
read_prompt_file_body(s, prompt_name) ==
    IF ~path_exists(s, prompt_name)
    THEN [raised |-> TRUE, status_code |-> 404,
          detail |-> "Prompt template " \o prompt_name \o " not found",
          value |-> "", exists_checks |-> 1, reads |-> 0]
    ELSE [raised |-> FALSE, status_code |-> 0, detail |-> "",
          value |-> s[prompt_name], exists_checks |-> 1, reads |-> 1]

\* Variant of the lookup that never finds an entry (the memoisation lost).
cache_index_never(c, key) == 0

\* Index of the entry for key in the cache, 0 when absent.
cache_index(c, key) ==
    IF \E i \in 1..Len(c) : c[i].key = key
    THEN CHOOSE i \in 1..Len(c) : c[i].key = key
    ELSE 0

cache_keys(c) == {c[i].key : i \in 1..Len(c)}

\* c without its i-th entry.
cache_remove(c, i) == SubSeq(c, 1, i - 1) \o SubSeq(c, i + 1, Len(c))

\* Variant of the insertion that evicts the most recently used entry.
cache_insert_evict_newest(c, key, value) ==
    IF Len(c) >= maxsize
    THEN Append(SubSeq(c, 1, Len(c) - 1), [key |-> key, value |-> value])
    ELSE Append(c, [key |-> key, value |-> value])

\* Store a new entry as most recently used, evicting the least recently
\* used entry when the cache is full.
cache_insert(c, key, value) ==
    IF Len(c) >= maxsize
    THEN Append(Tail(c), [key |-> key, value |-> value])
    ELSE Append(c, [key |-> key, value |-> value])

\* A hit returns the stored value and makes the entry most recently used.
cache_hit(c, i) == Append(cache_remove(c, i), c[i])

\* Variant of the decorated function that remembers a failure as an empty
\* template.
read_prompt_file_caches_failure(c, s, prompt_name) ==
    LET i == cache_index(c, prompt_name) IN
    IF i # 0
    THEN [cache |-> cache_hit(c, i), raised |-> FALSE,
          status_code |-> 0, detail |-> "", value |-> c[i].value,
          exists_checks |-> 0, reads |-> 0]
    ELSE LET r == read_prompt_file_body(s, prompt_name) IN
         [cache |-> cache_insert(c, prompt_name, r.value),
          raised |-> r.raised, status_code |-> r.status_code,
          detail |-> r.detail, value |-> r.value,
          exists_checks |-> r.exists_checks, reads |-> r.reads]

\* The decorated read_prompt_file: the cache it leaves, the value returned
\* or the exception raised, and the store accesses made.  An exception is
\* never stored.
read_prompt_file(c, s, prompt_name) ==
    LET i == cache_index(c, prompt_name) IN
    IF i # 0
    THEN [cache |-> cache_hit(c, i), raised |-> FALSE,
          status_code |-> 0, detail |-> "", value |-> c[i].value,
          exists_checks |-> 0, reads |-> 0]
    ELSE LET r == read_prompt_file_body(s, prompt_name) IN
         [cache |-> IF r.raised THEN c ELSE cache_insert(c, prompt_name, r.value),
          raised |-> r.raised, status_code |-> r.status_code,
          detail |-> r.detail, value |-> r.value,
          exists_checks |-> r.exists_checks, reads |-> r.reads]

\* The effect of one call of read_prompt_file on the cache and on the
\* bookkeeping of calls.
ReadPromptFileCall(prompt_name) ==
    LET r == read_prompt_file(cache, store, prompt_name) IN
    /\ cache' = r.cache
    /\ call' = [name |-> prompt_name,
                again |-> prompt_name \in DOMAIN firstResult,
                others |-> IF prompt_name \in DOMAIN sinceLast
                           THEN Cardinality(sinceLast[prompt_name]) ELSE 0,
                raised |-> r.raised, status_code |-> r.status_code,
                value |-> r.value,
                exists_checks |-> r.exists_checks, reads |-> r.reads]
    /\ firstResult' =
          IF r.raised \/ prompt_name \in DOMAIN firstResult
          THEN firstResult
          ELSE [n \in DOMAIN firstResult \cup {prompt_name} |->
                   IF n = prompt_name THEN r.value ELSE firstResult[n]]
    /\ sinceLast' =
          IF r.raised
          THEN sinceLast
          ELSE [n \in DOMAIN sinceLast \cup ({prompt_name} \cap HotNames) |->
                   IF n = prompt_name THEN {} ELSE sinceLast[n] \cup {prompt_name}]
    /\ failed' = IF r.raised THEN failed \cup {prompt_name} ELSE failed

\* A direct resolve of one of the request-carried names.
Resolve(prompt_name) ==
    /\ ReadPromptFileCall(prompt_name)
    /\ UNCHANGED <<store, touched, nextFiller, writes, healthVars, gwVars>>

\* A resolve of the next name of the sweep through the other templates.
ResolveFiller ==
    /\ nextFiller <= NumFillers
    /\ ReadPromptFileCall(FillerName(nextFiller))
    /\ nextFiller' = nextFiller + 1
    /\ UNCHANGED <<store, touched, writes, healthVars, gwVars>>

\* The operator writes /prompts/<name>.txt (the store is external to the
\* process and read-only from its side).
StoreWrite(name, body) ==
    /\ writes < MaxWrites
    /\ writes' = writes + 1
    /\ store' = [n \in DOMAIN store \cup {name} |->
                    IF n = name THEN body ELSE store[n]]
    /\ touched' = IF name \in DOMAIN firstResult THEN touched \cup {name} ELSE touched
    /\ UNCHANGED <<cache, call, firstResult, sinceLast, nextFiller, failed,
                   healthVars, gwVars>>

CacheInit ==
    /\ store = InitStore
    /\ cache = <<>>
    /\ call = NoCall
    /\ firstResult = [n \in {} |-> ""]
    /\ touched = {}
    /\ sinceLast = [n \in {} |-> {}]
    /\ nextFiller = 1
    /\ writes = 0
    /\ failed = {}

CacheNext ==
    \/ \E n \in {"helpful", "xyz"} : Resolve(n)
    \/ ResolveFiller
    \/ \E n \in WritableNames, b \in WriteBodies : StoreWrite(n, b)


\* ------------------------------------------------------------------ healthz

\* Bounds of the liveness model: concurrent /healthz callers, the wall
\* clock (whole seconds) at process start and the seconds modelled after it.
NumCallers == 2
StartTime == 6
MaxTicks == 6

\* "if current_time - last_check > 5"
window == 5

Callers == 1..NumCallers

\* What the probe "await http_client.get(...)" can end with: an exception
\* (timeout, connection error) or a response carrying a status code.
ProbeExceptions == {"timeout", "connect_error"}
ProbeStatusCodes == {200, 499, 500}
ProbeOutcomes ==
    [kind : {"exception"}, exc : ProbeExceptions, status_code : {0}]
    \cup [kind : {"response"}, exc : {""}, status_code : ProbeStatusCodes]

None == [is_none |-> TRUE]
StatusOk == [status |-> "ok", upstream |-> TRUE]
StatusDegraded == [status |-> "degraded", upstream |-> FALSE]

IdleCall == [pc |-> "idle", current_time |-> 0, probed |-> FALSE,
             overlapped |-> FALSE, ret |-> None]

\* getattr(healthz, name, default)
getattr(attrs, name, default) ==
    IF name \in DOMAIN attrs THEN attrs[name] ELSE default

\* healthz.<name> = value
setattr(attrs, name, value) ==
    [a \in DOMAIN attrs \cup {name} |-> IF a = name THEN value ELSE attrs[a]]

\* "if current_time - last_check > 5 or last_status is None"
must_probe(current_time, last_check, last_status) ==
    current_time - last_check > window \/ last_status = None

\* Variant of the except clause that catches timeouts only.
healthz_except_timeout_only(exc) == exc = "timeout"

\* "except Exception:" around the probe: whether it catches exc.  Timeouts
\* and connection errors of the client are Exceptions.
healthz_except(exc) == exc \in ProbeExceptions

\* Variant of the probe's branches with the comparison "<= 500".
attrs_after_probe_le500(attrs, outcome, current_time) ==
    IF outcome.kind = "response"
    THEN IF outcome.status_code <= 500
         THEN setattr(attrs, "last_status", [status |-> "ok", upstream |-> TRUE])
         ELSE setattr(attrs, "last_status", [status |-> "degraded", upstream |-> FALSE])
    ELSE setattr(setattr(attrs, "last_status", [status |-> "degraded", upstream |-> FALSE]),
                 "last_check_time", current_time)

\* Variant of the probe's branches whose 5xx branch changes the status
\* text only.
attrs_after_probe_mixed(attrs, outcome, current_time) ==
    IF outcome.kind = "response"
    THEN IF outcome.status_code < 500
         THEN setattr(attrs, "last_status", [status |-> "ok", upstream |-> TRUE])
         ELSE setattr(attrs, "last_status", [status |-> "degraded", upstream |-> TRUE])
    ELSE setattr(setattr(attrs, "last_status", [status |-> "degraded", upstream |-> FALSE]),
                 "last_check_time", current_time)

\* The try/except around the probe: what it leaves in the attributes.
\* last_check_time is assigned in the except branch only.
attrs_after_probe(attrs, outcome, current_time) ==
    IF outcome.kind = "response"
    THEN IF outcome.status_code < 500
         THEN setattr(attrs, "last_status", StatusOk)
         ELSE setattr(attrs, "last_status", StatusDegraded)
    ELSE setattr(setattr(attrs, "last_status", StatusDegraded),
                 "last_check_time", current_time)

Probing == {h \in Callers : hz[h].pc = "probing"}

\* A caller enters healthz and runs it up to the await of the probe, or to
\* the return when the cached status is served.
HealthzCall(h) ==
    /\ hz[h].pc \in {"idle", "returned", "raised"}
    /\ LET current_time == now
           last_check == getattr(healthz_attrs, "last_check_time", 0)
           last_status == getattr(healthz_attrs, "last_status", None)
       IN IF must_probe(current_time, last_check, last_status)
          THEN hz' = [g \in Callers |->
                        IF g = h
                        THEN [pc |-> "probing", current_time |-> current_time,
                              probed |-> TRUE, overlapped |-> Probing # {},
                              ret |-> None]
                        ELSE IF g \in Probing
                             THEN [hz[g] EXCEPT !.overlapped = TRUE]
                             ELSE hz[g]]
          ELSE hz' = [hz EXCEPT ![h] =
                        [pc |-> "returned", current_time |-> current_time,
                         probed |-> FALSE, overlapped |-> FALSE,
                         ret |-> healthz_attrs["last_status"]]]
    /\ UNCHANGED <<now, healthz_attrs, status_origin, cacheVars, gwVars>>

\* The probe of caller h ends; the call stores the status and returns it.
\* An exception the except clause does not catch leaves the call instead.
ProbeDone(h, outcome) ==
    /\ hz[h].pc = "probing"
    /\ IF outcome.kind = "exception" /\ ~healthz_except(outcome.exc)
       THEN /\ healthz_attrs' = healthz_attrs
            /\ hz' = [hz EXCEPT ![h].pc = "raised"]
       ELSE /\ healthz_attrs' = attrs_after_probe(healthz_attrs, outcome, hz[h].current_time)
            /\ hz' = [hz EXCEPT ![h].pc = "returned",
                                ![h].ret = healthz_attrs'["last_status"]]
    /\ UNCHANGED <<now, cacheVars, gwVars>>

HealthzProbeDone(h, outcome) ==
    /\ ProbeDone(h, outcome)
    /\ UNCHANGED status_origin

\* The same step, with the history of who stored the status recorded.
HealthzProbeDoneTracked(h, outcome) ==
    /\ ProbeDone(h, outcome)
    /\ status_origin' = IF hz'[h].pc = "returned"
                        THEN hz[h].current_time
                        ELSE status_origin

\* One second passes.
Tick ==
    /\ now < StartTime + MaxTicks
    /\ now' = now + 1
    /\ UNCHANGED <<healthz_attrs, hz, status_origin, cacheVars, gwVars>>

HealthInit ==
    /\ now = StartTime
    /\ healthz_attrs = [a \in {} |-> 0]
    /\ hz = [h \in Callers |-> IdleCall]
    /\ status_origin = 0

HealthNext ==
    \/ \E h \in Callers : HealthzCall(h)
    \/ \E h \in Callers, o \in ProbeOutcomes : HealthzProbeDone(h, o)
    \/ Tick

StalenessNext ==
    \/ \E h \in Callers : HealthzCall(h)
    \/ \E h \in Callers, o \in ProbeOutcomes : HealthzProbeDoneTracked(h, o)
    \/ Tick

\* --------------------------------------------------- chat-completion gateway

\* Bounds of the gateway model: length of a client message list, chunks
\* the backend emits on one stream.
MaxMsgs == 2
MaxChunks == 2

\* class Message(BaseModel): role, content
Messages == {[role |-> "user", content |-> "hi"],
             [role |-> "system", content |-> "Be brief."]}
RECURSIVE SeqsUpTo(_, _)
SeqsUpTo(S, n) ==
    IF n = 0 THEN {<<>>}
    ELSE LET shorter == SeqsUpTo(S, n - 1) IN
         shorter \cup {Append(q, x) : q \in {t \in shorter : Len(t) = n - 1}, x \in S}
MessageLists == SeqsUpTo(Messages, MaxMsgs)

\* prompt: Optional[str] = None
NoPrompt == [is_none |-> TRUE, value |-> ""]
Str(v) == [is_none |-> FALSE, value |-> v]
Prompts == {NoPrompt, Str("")} \cup {Str(n) : n \in HotNames}

\* Python truthiness of an Optional[str] / str: "if prompt:", "if system_prompt:"
truthy(p) == ~p.is_none /\ p.value # ""
truthy_str(v) == v # ""

Chunks == {"c1", "c2"}

\* Exceptions, by class.  httpx.RequestError covers the transport errors
\* and the timeouts; httpx.HTTPStatusError is raised by raise_for_status.
RequestErrors == {"ConnectError", "ReadTimeout", "ReadError"}
BackendStatusCodes == {200, 404, 500}
Exc(type, status_code, message) ==
    [type |-> type, status_code |-> status_code, message |-> message]

\* str(e) of an exception
str(e) == e.message

\* json.dumps({"error": str(e)}).encode(): the in-band error record
ErrorRecord(e) == "{\"error\": \"" \o str(e) \o "\"}"

IdleReq == [pc |-> "idle", mode |-> "", messages |-> <<>>, prompt |-> NoPrompt,
            resolve |-> "none", template |-> "", payloads |-> <<>>,
            backend |-> "", backend_status |-> 0,
            response |-> [kind |-> "", status_code |-> 0],
            received |-> <<>>, out |-> <<>>,
            conn |-> "none", disconnected |-> FALSE]

\* Variant of compose that inserts the system message whatever the
\* system prompt is.
compose_always_insert(messages, system_prompt) ==
    <<[role |-> "system", content |-> system_prompt]>>
    \o [i \in 1..Len(messages) |->
          [role |-> messages[i].role, content |-> messages[i].content]]

\* messages = [{"role": m.role, "content": m.content} for m in request.messages]
\* if system_prompt: messages.insert(0, {"role": "system", "content": system_prompt})
compose(messages, system_prompt) ==
    LET dicts == [i \in 1..Len(messages) |->
                    [role |-> messages[i].role, content |-> messages[i].content]]
    IN IF truthy_str(system_prompt)
       THEN <<[role |-> "system", content |-> system_prompt]>> \o dicts
       ELSE dicts

\* The payload dicts of the two handlers (model, temperature and max_tokens
\* are copied from the request unchanged and not modelled).
buffered_payload(messages) == [messages |-> messages, stream |-> FALSE]
stream_payload(messages) == [messages |-> messages, stream |-> TRUE]

\* Variant of the relay loop that yields every chunk twice.
yield_chunk_twice(out, chunk) == Append(Append(out, chunk), chunk)

\* async for chunk in response.aiter_bytes(): yield chunk
yield_chunk(out, chunk) == Append(out, chunk)

\* Exceptions thrown into a suspended coroutine from outside: the task is
\* cancelled, or the generator is closed.  Both derive from BaseException,
\* not from Exception.
BaseExceptions == {"CancelledError", "GeneratorExit"}

\* Variant of the streaming except clause that catches everything
\* ("except BaseException").
stream_except_catches_all(exc_type) == TRUE

\* "except Exception as e" of response_generator: whether it catches
stream_except_catches(exc_type) == exc_type \notin BaseExceptions

\* Variant of the streaming except clause that ends the stream silently.
except_yield_silent(out, e) == out

\* except Exception as e: yield json.dumps({"error": str(e)}).encode()
except_yield(out, e) == Append(out, ErrorRecord(e))

\* The except clauses of generate, in order.
generate_except(e) ==
    IF e.type \in RequestErrors
    THEN [kind |-> "HTTPException", status_code |-> 502]
    ELSE IF e.type = "HTTPStatusError"
    THEN [kind |-> "HTTPException", status_code |-> 500]
    ELSE [kind |-> "HTTPException", status_code |-> 500]

\* Variant of raise_for_status that lets a 4xx/500 answer through.
raises_for_status_above_500(status_code) == status_code > 500

\* resp.raise_for_status()
raises_for_status(status_code) == status_code >= 400

\* Lines 80-82 / 116-118: the template lookup of a handler, as the cache
\* step it performs (none when "if prompt" is false).
LookupTemplate(prompt) ==
    IF truthy(prompt)
    THEN ReadPromptFileCall(prompt.value)
    ELSE UNCHANGED <<cache, call, firstResult, sinceLast, failed>>

\* What the lookup yields for the handler: raised, and the system prompt.
lookup_result(prompt) ==
    IF truthy(prompt)
    THEN LET r == read_prompt_file(cache, store, prompt.value) IN
         [requested |-> TRUE, raised |-> r.raised,
          exc |-> Exc("HTTPException", r.status_code, r.detail),
          system_prompt |-> r.value]
    ELSE [requested |-> FALSE, raised |-> FALSE,
          exc |-> Exc("", 0, ""), system_prompt |-> ""]

NewReq(mode, messages, prompt) ==
    [IdleReq EXCEPT !.mode = mode, !.messages = messages, !.prompt = prompt]

\* POST /v1/chat/completions: generate runs to its first await (the post),
\* or to the HTTPException when the template lookup raises.
GenerateCall(messages, prompt) ==
    /\ req.pc = "idle"
    /\ LookupTemplate(prompt)
    /\ LET l == lookup_result(prompt)
           q == NewReq("buffered", messages, prompt)
       IN IF l.raised
          THEN req' = [q EXCEPT !.pc = "done", !.resolve = "notfound",
                            !.response = generate_except(l.exc)]
          ELSE req' = [q EXCEPT !.pc = "awaiting",
                            !.resolve = IF l.requested THEN "ok" ELSE "none",
                            !.template = l.system_prompt,
                            !.payloads = <<buffered_payload(compose(messages, l.system_prompt))>>]
    /\ UNCHANGED <<store, touched, nextFiller, writes, healthVars>>

\* The post fails with a transport error or a timeout.
GenerateRequestError(exc) ==
    /\ req.pc = "awaiting"
    /\ req' = [req EXCEPT !.pc = "done", !.backend = exc,
                          !.response = generate_except(Exc(exc, 0, exc))]
    /\ UNCHANGED <<cacheVars, healthVars>>

\* The backend answers: raise_for_status, then resp.json().
GenerateResponse(status_code, valid_json) ==
    /\ req.pc = "awaiting"
    /\ req' = [req EXCEPT !.pc = "done", !.backend = "response",
                          !.backend_status = status_code,
                          !.response =
                              IF raises_for_status(status_code)
                              THEN generate_except(Exc("HTTPStatusError", status_code, "HTTPStatusError"))
                              ELSE IF ~valid_json
                              THEN generate_except(Exc("JSONDecodeError", 0, "JSONDecodeError"))
                              ELSE [kind |-> "json", status_code |-> 200]]
    /\ UNCHANGED <<cacheVars, healthVars>>

\* POST /v1/chat/completions/stream: generate_stream returns the
\* StreamingResponse at once; nothing of response_generator has run yet.
StreamCall(messages, prompt) ==
    /\ req.pc = "idle"
    /\ req' = [NewReq("stream", messages, prompt) EXCEPT
                     !.pc = "gen_start",
                     !.response = [kind |-> "StreamingResponse", status_code |-> 200]]
    /\ UNCHANGED <<cacheVars, healthVars>>

\* response_generator runs to the await that opens the backend stream, or
\* to the error record when the template lookup raises.
StreamGenStart ==
    /\ req.pc = "gen_start"
    /\ LookupTemplate(req.prompt)
    /\ LET l == lookup_result(req.prompt) IN
       IF l.raised
       THEN req' = [req EXCEPT !.pc = "done", !.resolve = "notfound",
                      !.out = except_yield(req.out, l.exc)]
       ELSE req' = [req EXCEPT !.pc = "connecting",
                      !.resolve = IF l.requested THEN "ok" ELSE "none",
                      !.template = l.system_prompt,
                      !.payloads = <<stream_payload(compose(req.messages, l.system_prompt))>>]
    /\ UNCHANGED <<store, touched, nextFiller, writes, healthVars>>

\* The backend's response headers arrive, whatever their status: the
\* generator enters the "async with" and awaits the first chunk.
StreamConnected(status_code) ==
    /\ req.pc = "connecting"
    /\ req' = [req EXCEPT !.pc = "streaming", !.backend = "response",
                          !.backend_status = status_code,
                          !.conn = "open"]
    /\ UNCHANGED <<cacheVars, healthVars>>

\* aiter_bytes delivers a chunk and the generator yields it.
StreamChunk(chunk) ==
    /\ req.pc = "streaming"
    /\ Len(req.received) < MaxChunks
    /\ req' = [req EXCEPT !.pc = "yielded",
                          !.received = Append(@, chunk),
                          !.out = yield_chunk(@, chunk)]
    /\ UNCHANGED <<cacheVars, healthVars>>

\* The consumer asks for the next item: the generator awaits the next chunk.
StreamNext ==
    /\ req.pc = "yielded"
    /\ req' = [req EXCEPT !.pc = "streaming"]
    /\ UNCHANGED <<cacheVars, healthVars>>

\* The backend ends the body cleanly: the generator returns.
StreamEnd ==
    /\ req.pc = "streaming"
    /\ req' = [req EXCEPT !.pc = "done", !.backend = "eof",
                          !.conn = "released"]
    /\ UNCHANGED <<cacheVars, healthVars>>

\* An exception of class exc_type surfaces at the point where the
\* generator is suspended: leaving the "async with" releases the backend
\* response if one is open, then the except clause yields the error record
\* if it catches the exception, and the generator is finished either way.
generator_raise(q, exc_type) ==
    [q EXCEPT !.pc = "done",
              !.conn = IF q.conn = "open" THEN "released" ELSE q.conn,
              !.out = IF stream_except_catches(exc_type)
                      THEN except_yield(q.out, Exc(exc_type, 0, exc_type))
                      ELSE q.out]

\* Opening the stream or reading the next chunk raises: "except Exception"
\* yields the error record and the generator returns.
StreamFail(exc) ==
    /\ req.pc \in {"connecting", "streaming"}
    /\ req' = [generator_raise(req, exc) EXCEPT !.backend = exc]
    /\ UNCHANGED <<cacheVars, healthVars>>

\* The client goes away.  The server stops serving the response: a
\* generator awaiting the backend is cancelled there (CancelledError), a
\* generator suspended at its yield is left behind as it is, and a
\* generator not yet started never runs.
ClientDisconnect ==
    /\ req.mode = "stream"
    /\ req.pc \in {"gen_start", "connecting", "streaming", "yielded"}
    /\ req' = IF req.pc \in {"connecting", "streaming"}
              THEN [generator_raise(req, "CancelledError") EXCEPT !.disconnected = TRUE]
              ELSE IF req.pc = "yielded"
              THEN [req EXCEPT !.pc = "abandoned", !.disconnected = TRUE]
              ELSE [req EXCEPT !.pc = "done", !.disconnected = TRUE]
    /\ UNCHANGED <<cacheVars, healthVars>>

\* The event loop finalizes the generator left behind at its yield:
\* aclose() throws GeneratorExit into it.
GeneratorClose ==
    /\ req.pc = "abandoned"
    /\ req' = generator_raise(req, "GeneratorExit")
    /\ UNCHANGED <<cacheVars, healthVars>>

\* The exchange is over: the response (or the end of the stream) has gone
\* to the client and the handler's frame is dropped.
RequestEnds ==
    /\ req.pc = "done"
    /\ req' = IdleReq
    /\ UNCHANGED <<cacheVars, healthVars>>

GatewayInit == req = IdleReq

GatewayNext ==
    \/ \E m \in MessageLists, p \in Prompts : GenerateCall(m, p)
    \/ \E e \in RequestErrors : GenerateRequestError(e)
    \/ \E s \in BackendStatusCodes, j \in BOOLEAN : GenerateResponse(s, j)
    \/ \E m \in MessageLists, p \in Prompts : StreamCall(m, p)
    \/ StreamGenStart
    \/ \E s \in BackendStatusCodes : StreamConnected(s)
    \/ \E c \in Chunks : StreamChunk(c)
    \/ StreamNext
    \/ StreamEnd
    \/ \E e \in RequestErrors : StreamFail(e)
    \/ ClientDisconnect
    \/ GeneratorClose
    \/ RequestEnds
    \/ \E n \in HotNames : Resolve(n)

\* ------------------------------------------------------------ specifications

Init == CacheInit /\ HealthInit /\ GatewayInit

\* The two chat endpoints serving one request after another, while other
\* requests look templates up in the shared cache.
Next == GatewayNext
Spec == Init /\ [][Next]_vars

\* The same, with the event loop's finalization of abandoned generators
\* taking place eventually.
StreamFairSpec == Init /\ [][Next]_vars /\ WF_vars(GeneratorClose)

\* read_prompt_file called for a stream of names while the store changes.
CacheSpec == Init /\ [][CacheNext]_vars

\* Concurrent /healthz calls while time passes.
HealthSpec == Init /\ [][HealthNext]_vars

\* The same, recording which call stored the status being served.
StalenessSpec == Init /\ [][StalenessNext]_vars

\* ------------------------------------------------------------------ claims

\* The message list a handler sent to the backend for the current request.
Dispatched == Len(req.payloads) > 0
SentMessages == req.payloads[1].messages
AsDicts(messages) ==
    [i \in 1..Len(messages) |->
        [role |-> messages[i].role, content |-> messages[i].content]]

\* C1 (as claimed): whenever a request whose template was resolved has been
\* dispatched, in either endpoint, the list sent has length len(M)+1, starts
\* with {role: system, content: the template's body} and continues with M in
\* order, whatever the body is.
C1_TemplateAlwaysPrepended ==
    (Dispatched /\ req.resolve = "ok") =>
        /\ Len(SentMessages) = Len(req.messages) + 1
        /\ SentMessages[1] = [role |-> "system", content |-> req.template]
        /\ \A i \in 1..Len(req.messages) :
              SentMessages[i + 1] = AsDicts(req.messages)[i]

\* C2: whenever a request that carries no template name has been
\* dispatched, in either endpoint, the list sent is exactly M: same length,
\* same order, same role and content, no system message added.
C2_NoTemplateIdentity ==
    (Dispatched /\ (req.prompt.is_none \/ req.prompt.value = "")) =>
        /\ Len(SentMessages) = Len(req.messages)
        /\ \A i \in 1..Len(req.messages) :
              /\ SentMessages[i].role = req.messages[i].role
              /\ SentMessages[i].content = req.messages[i].content

\* C2 witness: a two-message list with a client system message went out
\* from a streaming request without a template name.
C2_Witness ==
    /\ req.prompt.is_none
    /\ req.pc = "connecting"
    /\ Len(req.messages) = 2
    /\ req.messages[1].role = "system"
    /\ Len(SentMessages) = 2

\* C3 (as claimed): a buffered request naming a template that is not in the
\* store ends with a 404 for the client.
C3_BufferedNotFoundIs404 ==
    (req.mode = "buffered" /\ req.pc = "done" /\ req.resolve = "notfound") =>
        req.response.status_code = 404

\* C4: in both endpoints a request naming a template that is not in the
\* store issues no backend request, and a request that names a template
\* has reached the backend only if the lookup succeeded.
C4_NoDispatchWithoutTemplate ==
    /\ (~req.prompt.is_none /\ req.prompt.value # ""
          /\ req.prompt.value \notin DOMAIN store) =>
            (req.payloads = <<>> /\ req.backend = "" /\ req.received = <<>>)
    /\ req.resolve = "notfound" => req.payloads = <<>>
    /\ (Dispatched /\ ~req.prompt.is_none /\ req.prompt.value # "") =>
            req.resolve = "ok"

\* C4 witness: a streaming request for the absent template has ended with
\* the lookup failed and nothing sent.
C4_Witness ==
    /\ req.mode = "stream"
    /\ req.pc = "done"
    /\ req.prompt = Str("xyz")
    /\ req.resolve = "notfound"
    /\ req.payloads = <<>>
    /\ Len(req.out) = 1
\* C5 (as claimed): with the store unchanged, every resolve of a name that
\* was resolved successfully before returns the first result and reads
\* nothing from the store.
C5_RepeatNeverReads ==
    (call.again /\ writes = 0) =>
        (~call.raised /\ call.value = firstResult[call.name] /\ call.reads = 0)

\* C5 (amended): with the store unchanged, every resolve of a name that was
\* resolved successfully before returns the first result; it accesses the
\* store not at all as long as fewer than 32 other distinct names were
\* resolved successfully since the previous resolve of that name.
C5_RepeatReadsOnlyAfterEviction ==
    (call.again /\ writes = 0) =>
        /\ ~call.raised
        /\ call.value = firstResult[call.name]
        /\ call.others < 32 => (call.reads = 0 /\ call.exists_checks = 0)

\* C5 witness: "helpful" resolved again, without a read, after 31 other
\* names went through the cache.
C5_Witness ==
    /\ call.again
    /\ writes = 0
    /\ call.name = "helpful"
    /\ call.others = 31
    /\ call.reads = 0
    /\ call.value = "You are helpful."

\* C6 (as claimed): when a call has probed and another call, begun after it
\* returned and less than 5 seconds after it began, has returned too, the
\* second call did not probe and returned the same status.
C6_OneProbePerWindow ==
    \A a, b \in Callers :
        (/\ a # b
         /\ hz[a].pc = "returned" /\ hz[b].pc = "returned"
         /\ hz[a].probed
         /\ ~hz[a].overlapped /\ ~hz[b].overlapped
         /\ hz[a].current_time <= hz[b].current_time
         /\ hz[b].current_time - hz[a].current_time < 5)
        => (~hz[b].probed /\ hz[b].ret = hz[a].ret)

\* C7 (as claimed): at most one probe of the backend is in flight.
C7_SingleFlight == Cardinality({h \in Callers : hz[h].pc = "probing"}) <= 1

\* The status the claim assigns to a probe outcome.
ExpectedStatus(outcome) ==
    IF outcome.kind = "exception" \/ outcome.status_code >= 500
    THEN [status |-> "degraded", upstream |-> FALSE]
    ELSE [status |-> "ok", upstream |-> TRUE]

\* C8: every step in which a call's probe ends with outcome o stores and
\* returns the status o alone decides: degraded/false for a timeout, a
\* connection error or a status >= 500, ok/true for any status below 500.
C8_ProbeOutcomeDecidesStatus ==
    [][\A h \in Callers, o \in ProbeOutcomes :
          HealthzProbeDone(h, o) =>
              /\ hz'[h].ret = ExpectedStatus(o)
              /\ healthz_attrs'["last_status"] = ExpectedStatus(o)]_vars

\* C8 witness: one call that probed has returned ok and another call that
\* probed has returned degraded.
C8_Witness ==
    \E a, b \in Callers :
        /\ hz[a].pc = "returned" /\ hz[a].probed
        /\ hz[a].ret = [status |-> "ok", upstream |-> TRUE]
        /\ hz[b].pc = "returned" /\ hz[b].probed
        /\ hz[b].ret = [status |-> "degraded", upstream |-> FALSE]

\* C9: a buffered request never has more than one backend request, and
\* when the backend answered it with a failure status the client gets a
\* 500 HTTPException after exactly one backend request.
C9_StatusErrorNoRetry ==
    /\ req.mode = "buffered" => Len(req.payloads) <= 1
    /\ (req.mode = "buffered" /\ req.pc = "done"
          /\ req.backend = "response" /\ req.backend_status >= 400) =>
            /\ req.response = [kind |-> "HTTPException", status_code |-> 500]
            /\ Len(req.payloads) = 1

\* C9 witness: a buffered request answered 500 by the backend has ended.
C9_Witness ==
    /\ req.mode = "buffered"
    /\ req.pc = "done"
    /\ req.backend_status = 500
    /\ req.response.status_code = 500
    /\ Len(req.payloads) = 1

\* An item of the stream that is not a backend chunk.
IsErrorItem(x) == x \notin Chunks
ConnectionFailed == req.backend \in {"ConnectError", "ReadTimeout", "ReadError"}

\* C10: a stream whose backend connection failed after n chunks has
\* delivered exactly those n chunks in order and then one error record, and
\* has ended; an error record is only ever the last item of an ended stream.
C10_FailedStreamEndsWithErrorRecord ==
    /\ \A i \in 1..Len(req.out) :
          IsErrorItem(req.out[i]) => (i = Len(req.out) /\ req.pc = "done")
    /\ (req.mode = "stream" /\ ConnectionFailed) =>
          /\ req.pc = "done"
          /\ Len(req.out) = Len(req.received) + 1
          /\ SubSeq(req.out, 1, Len(req.received)) = req.received
          /\ IsErrorItem(req.out[Len(req.out)])

\* C10 witness: a stream that failed after two chunks.
C10_Witness ==
    /\ req.mode = "stream"
    /\ req.backend = "ReadError"
    /\ req.received = <<"c1", "c2">>
    /\ Len(req.out) = 3

\* C11: a stream relays the backend's chunks as they come, and a stream the
\* backend completed cleanly has delivered exactly the chunks received, in
\* the order received, with no error record.
C11_CleanStreamRelaysVerbatim ==
    /\ (req.mode = "stream" /\ req.pc \in {"streaming", "yielded"}) =>
          req.out = req.received
    /\ (req.mode = "stream" /\ req.pc = "done" /\ req.backend = "eof") =>
          /\ req.out = req.received
          /\ \A i \in 1..Len(req.out) : ~IsErrorItem(req.out[i])

\* C11 witness: a stream of two different chunks has ended cleanly.
C11_Witness ==
    /\ req.mode = "stream"
    /\ req.pc = "done"
    /\ req.backend = "eof"
    /\ req.received = <<"c2", "c1">>
    /\ req.out = <<"c2", "c1">>

\* C12 (as claimed): a buffered request that ended on a backend timeout
\* gets a client-facing error (kind and status) other than the one the
\* handler gives to a connection failure.
C12_TimeoutDistinctFromUnreachable ==
    (req.mode = "buffered" /\ req.pc = "done" /\ req.backend = "ReadTimeout") =>
        req.response # generate_except(Exc("ConnectError", 0, "ConnectError"))

\* C13: no healthz call ever ends by raising; a call awaiting its probe can
\* complete for every probe outcome, and when it does it returns a status
\* value, which is the degraded one whenever the probe raised.
C13_ProbeFailuresAbsorbed ==
    /\ [](\A h \in Callers :
            /\ hz[h].pc # "raised"
            /\ hz[h].pc = "probing" =>
                  \A o \in ProbeOutcomes : ENABLED HealthzProbeDone(h, o))
    /\ [][\A h \in Callers :
            (hz[h].pc = "probing" /\ hz'[h].pc # "probing") =>
                /\ hz'[h].pc = "returned"
                /\ hz'[h].ret \in {StatusOk, StatusDegraded}
                /\ \A o \in ProbeOutcomes :
                      (o.kind = "exception" /\ HealthzProbeDone(h, o)) =>
                          hz'[h].ret = StatusDegraded]_vars

\* C13 witness: a call whose probe raised has returned the degraded status
\* (only the except branch stamps last_check_time with the call's time).
C13_Witness ==
    \E h \in Callers :
        /\ hz[h].pc = "returned" /\ hz[h].probed
        /\ hz[h].ret = StatusDegraded
        /\ "last_check_time" \in DOMAIN healthz_attrs
        /\ healthz_attrs["last_check_time"] = hz[h].current_time

\* C14 (as claimed): a stream whose backend answered with a non-success
\* status, and whose client stayed, ends with exactly one error record as
\* its last item.
C14_StreamStatusErrorGivesErrorRecord ==
    (req.mode = "stream" /\ req.pc = "done" /\ ~req.disconnected
       /\ req.backend_status >= 400) =>
        /\ Len(req.out) > 0
        /\ IsErrorItem(req.out[Len(req.out)])
        /\ Cardinality({i \in 1..Len(req.out) : IsErrorItem(req.out[i])}) = 1

\* C15 (as claimed): a streaming request naming a template that is not in
\* the store is answered with a 404.
C15_StreamNotFoundIs404 ==
    (req.mode = "stream" /\ req.resolve = "notfound") =>
        req.response.status_code = 404

C18_StalenessBoundedByWindow ==
    [][\A h \in Callers :
          (HealthzCall(h) /\ ~hz'[h].probed) =>
              status_origin >= now - window]_vars

\* C19: every value a healthz call has returned is {ok, true} or
\* {degraded, false}, never the None start value and never a mixed pair;
\* a call made while no status is stored always probes, so no call returns
\* without a stored status, also when first calls overlap.
C19_ReturnedStatusWellFormed ==
    \A h \in Callers :
        /\ hz[h].pc = "returned" =>
              /\ hz[h].ret # None
              /\ hz[h].ret \in {[status |-> "ok", upstream |-> TRUE],
                                [status |-> "degraded", upstream |-> FALSE]}
              /\ (hz[h].ret.status = "ok") <=> hz[h].ret.upstream
              /\ "last_status" \in DOMAIN healthz_attrs
        /\ (hz[h].pc = "probing" /\ "last_status" \notin DOMAIN healthz_attrs) =>
              hz[h].ret = None
        /\ ("last_status" \notin DOMAIN healthz_attrs) => hz[h].pc \in {"idle", "probing"}

\* C19 witness: two first calls overlapped, both probed, and both returned
\* a well-formed status, one of each kind.
C19_Witness ==
    /\ \A h \in Callers : hz[h].pc = "returned" /\ hz[h].probed /\ hz[h].overlapped
    /\ hz[1].current_time = StartTime /\ hz[2].current_time = StartTime
    /\ hz[1].ret = StatusOk
    /\ hz[2].ret = StatusDegraded

\* C17: the cache never holds more than 32 entries nor two entries for one
\* name; a request-carried name resolved before is in the cache exactly
\* while fewer than 32 other distinct names have been resolved since its
\* last resolve (least-recently-used eviction); and resolving such a name
\* again after it was evicted costs one existence check and one read.
C17_BoundedLruCache ==
    /\ Len(cache) <= 32
    /\ Cardinality(cache_keys(cache)) = Len(cache)
    /\ \A n \in DOMAIN sinceLast :
          (n \in cache_keys(cache)) <=> (Cardinality(sinceLast[n]) < 32)
    /\ (call.again /\ call.others >= 32 /\ ~call.raised) =>
          /\ call.reads = 1
          /\ call.exists_checks = 1
          /\ call.name \in cache_keys(cache)

\* C17 witness: "helpful" was evicted by 32 other names and has just been
\* resolved again with one read, the cache being full.
C17_Witness ==
    /\ call.name = "helpful"
    /\ call.again
    /\ call.others = 32
    /\ call.reads = 1
    /\ Len(cache) = 32
    /\ cache[Len(cache)].key = "helpful"

\* C20: a resolve that raises not-found leaves the cache as it was; a
\* resolve of a name never resolved successfully makes one existence check
\* of the store; a resolve of a name that failed before and whose file is
\* now in the store returns the file's content and leaves the name cached;
\* and a resolve of a cached name does not go to the store.
C20_FailureNotCached ==
    [][\A n \in {"helpful", "xyz"} :
          Resolve(n) =>
              /\ call'.raised => (cache' = cache /\ n \notin cache_keys(cache'))
              /\ n \notin DOMAIN firstResult => call'.exists_checks = 1
              /\ (n \in failed /\ n \in DOMAIN store) =>
                    /\ ~call'.raised
                    /\ n \in cache_keys(cache')
                    /\ n \notin cache_keys(cache) =>
                          (call'.value = store[n] /\ call'.reads = 1)
              /\ n \in cache_keys(cache) =>
                    (~call'.raised /\ call'.exists_checks = 0 /\ call'.reads = 0)]_vars

\* C20 witness: "xyz" failed to resolve, its file was written, and the
\* resolve after that found it in the store and cached it.
C20_Witness ==
    /\ "xyz" \in failed
    /\ call.name = "xyz"
    /\ ~call.raised
    /\ call.exists_checks = 1
    /\ call.value = "Be terse."
    /\ "xyz" \in cache_keys(cache)
====
